---- MODULE Spec2Model ----
(***************************************************************************)
(* osrparse.replay: the decoder of one osu! replay buffer.  A Replay is    *)
(* built by eight parse steps that share one cursor (self.offset) over an  *)
(* immutable byte buffer (replay_data).  Bytes are the integers 0..255,    *)
(* a buffer is a sequence of bytes, and the byte at the 0-based offset o   *)
(* is replay_data[o + 1].                                                  *)
(*                                                                         *)
(* A Python exception aborts the decode: the model records its name in     *)
(* err and leaves pc at the step that raised it; no step follows.          *)
(***************************************************************************)
EXTENDS Integers, Sequences, FiniteSets, TLC

VARIABLES
    replay_data,      \* the input buffer (never changes)
    pc,               \* the next parse step of parse_replay_and_initialize_fields
    err,              \* None, or Some(name of the exception that aborted the decode)
    offset,           \* self.offset
    game_mode,        \* self.game_mode
    game_version,     \* self.game_version
    beatmap_hash,     \* self.beatmap_hash
    player_name,      \* self.player_name
    replay_hash,      \* self.replay_hash
    game_stats,       \* number_300s, number_100s, number_50s, gekis, katus, misses,
                      \* score, max_combo, is_perfect_combo (in unpack order)
    mod_combination,  \* self.mod_combination
    life_bar_graph,   \* self.life_bar_graph
    timestamp,        \* self.timestamp
    replay_length,    \* self.__replay_length
    string_length,    \* the value __decode returned to parse_string, last call
    play_data         \* self.play_data

vars == <<replay_data, pc, err, offset, game_mode, game_version, beatmap_hash,
          player_name, replay_hash, game_stats, mod_combination, life_bar_graph,
          timestamp, replay_length, string_length, play_data>>

fields == <<game_mode, game_version, beatmap_hash, player_name, replay_hash,
            game_stats, mod_combination, life_bar_graph, timestamp, replay_length,
            play_data>>

\* Python's None and a present value: a sequence of length 0 or 1.
None == <<>>
Some(x) == <<x>>

(***************************************************************************)
(* Python built-ins the decoder uses.                                      *)
(***************************************************************************)

\* s[a:b] for a bytes or list s, negative indices counted from the end.
PySlice(s, a, b) ==
    LET n  == Len(s)
        lo == IF a < 0 THEN (IF n + a < 0 THEN 0 ELSE n + a) ELSE (IF a > n THEN n ELSE a)
        hi == IF b < 0 THEN (IF n + b < 0 THEN 0 ELSE n + b) ELSE (IF b > n THEN n ELSE b)
    IN  SubSeq(s, lo + 1, hi)

\* struct: the standard size of one format character ("<": no padding).
SizeOf(c) ==
    CASE c = "b" -> 1
      [] c = "?" -> 1
      [] c = "h" -> 2
      [] c = "i" -> 4
      [] c = "q" -> 8

RECURSIVE calcsize(_)
calcsize(fmt) ==
    IF fmt = <<>> THEN 0 ELSE SizeOf(Head(fmt)) + calcsize(Tail(fmt))

\* The n bytes at offset off as a little-endian two's-complement integer.
RECURSIVE le_int(_, _, _)
le_int(data, off, n) ==
    IF n = 1
    THEN (IF data[off + 1] >= 128 THEN data[off + 1] - 256 ELSE data[off + 1])
    ELSE data[off + 1] + 256 * le_int(data, off + 1, n - 1)

RECURSIVE unpack_values(_, _, _)
unpack_values(fmt, data, off) ==
    IF fmt = <<>> THEN <<>>
    ELSE LET c == Head(fmt)
             v == IF c = "?" THEN data[off + 1] # 0 ELSE le_int(data, off, SizeOf(c))
         IN  <<v>> \o unpack_values(Tail(fmt), data, off + SizeOf(c))

\* struct.unpack_from(fmt, data, off): struct.error unless calcsize(fmt) bytes
\* are left at off.
unpack_from(fmt, data, off) ==
    IF Len(data) - off < calcsize(fmt)
    THEN [err |-> Some("struct.error"), data |-> <<>>]
    ELSE [err |-> None, data |-> unpack_values(fmt, data, off)]

\* bytes.decode("utf-8"), strict: Some(code points), or None for a
\* UnicodeDecodeError.
RECURSIVE utf8_decode(_)
utf8_decode(b) ==
    IF b = <<>> THEN Some(<<>>)
    ELSE
      LET b1 == b[1]
          n  == IF b1 < 128 THEN 1
                ELSE IF b1 \in 194..223 THEN 2
                ELSE IF b1 \in 224..239 THEN 3
                ELSE IF b1 \in 240..244 THEN 4
                ELSE 0
      IN  IF n = 0 \/ Len(b) < n THEN None
          ELSE IF \E i \in 2..n : b[i] \notin 128..191 THEN None
          ELSE IF \/ (b1 = 224 /\ b[2] < 160)
                  \/ (b1 = 237 /\ b[2] > 159)
                  \/ (b1 = 240 /\ b[2] < 144)
                  \/ (b1 = 244 /\ b[2] > 143) THEN None
          ELSE
            LET cp == CASE n = 1 -> b1
                        [] n = 2 -> (b1 - 192) * 64 + (b[2] - 128)
                        [] n = 3 -> (b1 - 224) * 4096 + (b[2] - 128) * 64 + (b[3] - 128)
                        [] n = 4 -> (b1 - 240) * 262144 + (b[2] - 128) * 4096
                                      + (b[3] - 128) * 64 + (b[4] - 128)
                rest == utf8_decode(SubSeq(b, n + 1, Len(b)))
            IN  IF rest = None THEN None ELSE Some(<<cp>> \o rest[1])

\* lzma.decompress(data, format=FORMAT_AUTO).  The LZMA container is a library
\* format; the model keeps what the decoder depends on: a stream is recognised
\* by its first byte, is complete only with its end-of-stream marker, several
\* streams may follow one another, and bytes after the last stream that start
\* no stream are ignored.  A stream is LzMagic, the stored text, LzEnd.
\* Some(text), or None for an LZMAError.
LzMagic == 93
LzEnd == 255

RECURSIVE lzma_streams(_, _, _)
lzma_streams(data, results, first) ==
    IF data # <<>> /\ data[1] # LzMagic
    THEN (IF first THEN None ELSE Some(results))
    ELSE IF \A i \in 1..Len(data) : data[i] # LzEnd
    THEN None
    ELSE LET e      == CHOOSE i \in 1..Len(data) :
                          data[i] = LzEnd /\ \A j \in 1..(i - 1) : data[j] # LzEnd
             res    == SubSeq(data, 2, e - 1)
             unused == SubSeq(data, e + 1, Len(data))
         IN  IF unused = <<>> THEN Some(results \o res)
             ELSE lzma_streams(unused, results \o res, FALSE)

lzma_decompress(data) == lzma_streams(data, <<>>, TRUE)

\* bytes.decode('ascii'): Some(characters), or None for a UnicodeDecodeError.
ascii_decode(b) ==
    IF \E i \in 1..Len(b) : b[i] >= 128 THEN None ELSE Some(b)

\* str.split(sep) for a one-character separator.
RECURSIVE split(_, _)
split(s, sep) ==
    IF \A i \in 1..Len(s) : s[i] # sep THEN <<s>>
    ELSE LET i == CHOOSE k \in 1..Len(s) :
                     s[k] = sep /\ \A j \in 1..(k - 1) : s[j] # sep
         IN  <<SubSeq(s, 1, i - 1)>> \o split(SubSeq(s, i + 1, Len(s)), sep)

IsDigits(s) == s # <<>> /\ \A i \in 1..Len(s) : s[i] \in 48..57

RECURSIVE digits_value(_)
digits_value(s) ==
    IF s = <<>> THEN 0
    ELSE digits_value(SubSeq(s, 1, Len(s) - 1)) * 10 + (s[Len(s)] - 48)

\* int(s) for a string of sign and decimal digits (the payload alphabet has no
\* white space and no underscore): Some(value), or None for a ValueError.
py_int(s) ==
    LET signed == s # <<>> /\ s[1] \in {43, 45}
        body   == IF signed THEN Tail(s) ELSE s
    IN  IF ~IsDigits(body) THEN None
        ELSE IF signed /\ s[1] = 45 THEN Some(0 - digits_value(body))
        ELSE Some(digits_value(body))

RECURSIVE strip_zeros(_)
strip_zeros(s) ==
    IF s # <<>> /\ s[Len(s)] = 48 THEN strip_zeros(SubSeq(s, 1, Len(s) - 1)) ELSE s

\* float(s) for a decimal literal without exponent: Some(<<m, d>>) for the
\* value m / 10^d with the fewest decimals d, or None for a ValueError.
py_float(s) ==
    LET signed == s # <<>> /\ s[1] \in {43, 45}
        body   == IF signed THEN Tail(s) ELSE s
        parts  == split(body, 46)
        int_p  == parts[1]
        frac_p == IF Len(parts) = 2 THEN strip_zeros(parts[2]) ELSE <<>>
        ok     == /\ Len(parts) <= 2
                  /\ \A i \in 1..Len(body) : body[i] \in (48..57) \cup {46}
                  /\ (int_p # <<>> \/ (Len(parts) = 2 /\ parts[2] # <<>>))
        m      == digits_value(int_p \o frac_p)
    IN  IF ~ok THEN None
        ELSE IF signed /\ s[1] = 45 THEN Some(<<0 - m, Len(frac_p)>>)
        ELSE Some(<<m, Len(frac_p)>>)

(***************************************************************************)
(* The enumerations of osrparse.enums.                                     *)
(***************************************************************************)
Standard == 0
GameModeValues == 0..3

\* GameMode(v): Some(member), or None for a ValueError.
GameMode(v) == IF v \in GameModeValues THEN Some(v) ELSE None

\* The bit positions that have a Mod member; NoMod is the member of value 0.
ModBits == 0..28
NoMod == 0

\* Mod(2^k): Some(member's value), or None for a ValueError.
ModOfBit(k) == IF k \in ModBits THEN Some(2 ^ k) ELSE None

(***************************************************************************)
(* Replay                                                                  *)
(***************************************************************************)
ReplayEvent(t, x, y, keys) ==
    [timestamp |-> t, x |-> x, y |-> y, keys_pressed |-> keys]

\* The position k of the lowest set bit of n # 0 in two's complement of any
\* width: b = n & (~n+1) is 2^k.
RECURSIVE lowest_bit(_)
lowest_bit(n) == IF n % 2 = 1 THEN 0 ELSE 1 + lowest_bit(n \div 2)

\* frozenset(Mod(mod_val) for mod_val in bits(n)): the generator is consumed
\* one value at a time, and the first value that is no Mod ends it with a
\* ValueError (None).  For n < 0 the generator alone never ends.
RECURSIVE mod_frozenset(_, _)
mod_frozenset(n, acc) ==
    IF n = 0 THEN Some(acc)
    ELSE LET k == lowest_bit(n)
             m == ModOfBit(k)
         IN  IF m = None THEN None
             ELSE mod_frozenset(n - 2 ^ k, acc \cup {m[1]})

\* Faulty variant: bits() without its n == 0 case.
parse_mod_combination_nozero(n) == mod_frozenset(n, {})

parse_mod_combination(n) ==
    IF n = 0 THEN Some({NoMod}) ELSE mod_frozenset(n, {})

\* Faulty variant: __decode shifting by a whole byte.
RECURSIVE decode_loop_shift8(_, _, _, _)
decode_loop_shift8(binarystream, off, result, shift) ==
    IF off >= Len(binarystream)
    THEN [err |-> Some("IndexError"), result |-> result, offset |-> off]
    ELSE LET byte == binarystream[off + 1]
             low  == byte % 128
             r    == IF low = 0 THEN result ELSE result + low * 2 ^ shift
         IN  IF byte \div 128 = 0
             THEN [err |-> None, result |-> r, offset |-> off + 1]
             ELSE decode_loop_shift8(binarystream, off + 1, r, shift + 8)

\* __decode: the ULEB128 reader.  result | (x << shift) is result + x * 2^shift,
\* for result < 2^shift.
RECURSIVE decode_loop(_, _, _, _)
decode_loop(binarystream, off, result, shift) ==
    IF off >= Len(binarystream)
    THEN [err |-> Some("IndexError"), result |-> result, offset |-> off]
    ELSE LET byte == binarystream[off + 1]
             low  == byte % 128
             r    == IF low = 0 THEN result ELSE result + low * 2 ^ shift
         IN  IF byte \div 128 = 0
             THEN [err |-> None, result |-> r, offset |-> off + 1]
             ELSE decode_loop(binarystream, off + 1, r, shift + 7)

decode(binarystream, off) == decode_loop(binarystream, off, 0, 0)

\* Faulty variant: parse_string taking every tag but 0x0b for an absent string.
parse_string_anytag(data, off) ==
    IF off >= Len(data)
    THEN [err |-> Some("IndexError"), value |-> None, offset |-> off,
          string_length |-> None]
    ELSE IF data[off + 1] = 11
    THEN LET d == decode(data, off + 1)
         IN  IF d.err # None
             THEN [err |-> d.err, value |-> None, offset |-> d.offset,
                   string_length |-> None]
             ELSE LET offset_end == d.offset + d.result
                      string     == utf8_decode(PySlice(data, d.offset, offset_end))
                  IN  IF string = None
                      THEN [err |-> Some("UnicodeDecodeError"), value |-> None,
                            offset |-> d.offset, string_length |-> Some(d.result)]
                      ELSE [err |-> None, value |-> string, offset |-> offset_end,
                            string_length |-> Some(d.result)]
    ELSE [err |-> None, value |-> None, offset |-> off + 1, string_length |-> None]

parse_string(data, off) ==
    IF off >= Len(data)
    THEN [err |-> Some("IndexError"), value |-> None, offset |-> off,
          string_length |-> None]
    ELSE IF data[off + 1] = 0
    THEN [err |-> None, value |-> None, offset |-> off + 1, string_length |-> None]
    ELSE IF data[off + 1] = 11
    THEN LET d == decode(data, off + 1)
         IN  IF d.err # None
             THEN [err |-> d.err, value |-> None, offset |-> d.offset,
                   string_length |-> None]
             ELSE LET offset_end == d.offset + d.result
                      string     == utf8_decode(PySlice(data, d.offset, offset_end))
                  IN  IF string = None
                      THEN [err |-> Some("UnicodeDecodeError"), value |-> None,
                            offset |-> d.offset, string_length |-> Some(d.result)]
                      ELSE [err |-> None, value |-> string, offset |-> offset_end,
                            string_length |-> Some(d.result)]
    ELSE [err |-> Some("Exception"), value |-> None, offset |-> off,
          string_length |-> None]

\* Faulty variant: the loop of parse_play_data with a skipped token left out of
\* the accumulator.
RECURSIVE parse_events_forget(_, _, _, _)
parse_events_forget(events, i, hitobject_timestamp, acc) ==
    IF i >= Len(events) THEN [err |-> None, play_data |-> acc]
    ELSE
      LET event == events[i + 1]
          time_since_previous_action == py_int(event[1])
          x == py_float(event[2])
          y == py_float(event[3])
          keys_pressed == py_int(event[4])
          t == time_since_previous_action[1]
      IN  IF time_since_previous_action = None
          THEN [err |-> Some("ValueError"), play_data |-> acc]
          ELSE IF i >= 2 /\ t < 0
          THEN parse_events_forget(events, i + 1, hitobject_timestamp, acc)
          ELSE IF Len(event) < 2 THEN [err |-> Some("IndexError"), play_data |-> acc]
          ELSE IF x = None THEN [err |-> Some("ValueError"), play_data |-> acc]
          ELSE IF Len(event) < 3 THEN [err |-> Some("IndexError"), play_data |-> acc]
          ELSE IF y = None THEN [err |-> Some("ValueError"), play_data |-> acc]
          ELSE IF Len(event) < 4 THEN [err |-> Some("IndexError"), play_data |-> acc]
          ELSE IF keys_pressed = None THEN [err |-> Some("ValueError"), play_data |-> acc]
          ELSE parse_events_forget(events, i + 1, hitobject_timestamp + t,
                            Append(acc, ReplayEvent(hitobject_timestamp + t,
                                                    x[1], y[1], keys_pressed[1])))

\* The loop of parse_play_data over the split tokens, from token i on.
RECURSIVE parse_events(_, _, _, _)
parse_events(events, i, hitobject_timestamp, acc) ==
    IF i >= Len(events) THEN [err |-> None, play_data |-> acc]
    ELSE
      LET event == events[i + 1]
          time_since_previous_action == py_int(event[1])
          x == py_float(event[2])
          y == py_float(event[3])
          keys_pressed == py_int(event[4])
          t == time_since_previous_action[1]
      IN  IF time_since_previous_action = None
          THEN [err |-> Some("ValueError"), play_data |-> acc]
          ELSE IF i >= 2 /\ t < 0
          THEN parse_events(events, i + 1, hitobject_timestamp + t, acc)
          ELSE IF Len(event) < 2 THEN [err |-> Some("IndexError"), play_data |-> acc]
          ELSE IF x = None THEN [err |-> Some("ValueError"), play_data |-> acc]
          ELSE IF Len(event) < 3 THEN [err |-> Some("IndexError"), play_data |-> acc]
          ELSE IF y = None THEN [err |-> Some("ValueError"), play_data |-> acc]
          ELSE IF Len(event) < 4 THEN [err |-> Some("IndexError"), play_data |-> acc]
          ELSE IF keys_pressed = None THEN [err |-> Some("ValueError"), play_data |-> acc]
          ELSE parse_events(events, i + 1, hitobject_timestamp + t,
                            Append(acc, ReplayEvent(hitobject_timestamp + t,
                                                    x[1], y[1], keys_pressed[1])))

\* Faulty variant: play_data[1:]
trim_one(events) == PySlice(events, 1, Len(events))

\* play_data[2:]
trim(events) == PySlice(events, 2, Len(events))

\* Lines 130-144: self.play_data of a Standard replay from the payload slice
\* (on an exception, what self.play_data holds when it is raised).
decode_play_data(slice) ==
    LET raw == lzma_decompress(slice)
        txt == ascii_decode(raw[1])
        datastring == PySlice(txt[1], 0, -1)
        events == [k \in 1..Len(split(datastring, 44)) |->
                      split(split(datastring, 44)[k], 124)]
        r == parse_events(events, 0, 0, <<>>)
    IN  IF raw = None THEN [err |-> Some("LZMAError"), play_data |-> None]
        ELSE IF txt = None THEN [err |-> Some("UnicodeDecodeError"), play_data |-> None]
        ELSE IF r.err # None THEN [err |-> r.err, play_data |-> Some(r.play_data)]
        ELSE [err |-> None, play_data |-> Some(trim(r.play_data))]

(***************************************************************************)
(* The parse steps, in the order of parse_replay_and_initialize_fields.    *)
(***************************************************************************)
parse_game_mode_and_version ==
    /\ pc = "game_mode_and_version" /\ err = None
    /\ LET format_specifier == <<"b", "i">>
           u  == unpack_from(format_specifier, replay_data, offset)
           gm == GameMode(u.data[1])
       IN  IF u.err # None
           THEN /\ err' = u.err
                /\ UNCHANGED <<pc, offset, game_mode, game_version>>
           ELSE IF gm = None
           THEN /\ err' = Some("ValueError")
                /\ offset' = offset + calcsize(format_specifier)
                /\ UNCHANGED <<pc, game_mode, game_version>>
           ELSE /\ offset' = offset + calcsize(format_specifier)
                /\ game_mode' = gm
                /\ game_version' = Some(u.data[2])
                /\ pc' = "beatmap_hash"
                /\ UNCHANGED err
    /\ UNCHANGED <<replay_data, beatmap_hash, player_name, replay_hash, game_stats,
                   mod_combination, life_bar_graph, timestamp, replay_length,
                   string_length, play_data>>

parse_beatmap_hash ==
    /\ pc = "beatmap_hash" /\ err = None
    /\ LET r == parse_string(replay_data, offset)
       IN  /\ offset' = r.offset
           /\ string_length' = r.string_length
           /\ err' = r.err
           /\ IF r.err # None THEN UNCHANGED <<pc, beatmap_hash>>
              ELSE beatmap_hash' = r.value /\ pc' = "player_name"
    /\ UNCHANGED <<replay_data, game_mode, game_version, player_name, replay_hash,
                   game_stats, mod_combination, life_bar_graph, timestamp,
                   replay_length, play_data>>

parse_player_name ==
    /\ pc = "player_name" /\ err = None
    /\ LET r == parse_string(replay_data, offset)
       IN  /\ offset' = r.offset
           /\ string_length' = r.string_length
           /\ err' = r.err
           /\ IF r.err # None THEN UNCHANGED <<pc, player_name>>
              ELSE player_name' = r.value /\ pc' = "replay_hash"
    /\ UNCHANGED <<replay_data, game_mode, game_version, beatmap_hash, replay_hash,
                   game_stats, mod_combination, life_bar_graph, timestamp,
                   replay_length, play_data>>

parse_replay_hash ==
    /\ pc = "replay_hash" /\ err = None
    /\ LET r == parse_string(replay_data, offset)
       IN  /\ offset' = r.offset
           /\ string_length' = r.string_length
           /\ err' = r.err
           /\ IF r.err # None THEN UNCHANGED <<pc, replay_hash>>
              ELSE replay_hash' = r.value /\ pc' = "score_stats"
    /\ UNCHANGED <<replay_data, game_mode, game_version, beatmap_hash, player_name,
                   game_stats, mod_combination, life_bar_graph, timestamp,
                   replay_length, play_data>>

\* unpack_game_stats assigns the ten unpacked values before
\* parse_mod_combination runs, and the offset moves after it.
parse_score_stats ==
    /\ pc = "score_stats" /\ err = None
    /\ LET format_specifier == <<"h", "h", "h", "h", "h", "h", "i", "h", "?", "i">>
           u == unpack_from(format_specifier, replay_data, offset)
           m == parse_mod_combination(u.data[10])
       IN  IF u.err # None
           THEN /\ err' = u.err
                /\ UNCHANGED <<pc, offset, game_stats, mod_combination>>
           ELSE /\ game_stats' = Some(SubSeq(u.data, 1, 9))
                /\ IF m = None
                   THEN /\ err' = Some("ValueError")
                        /\ mod_combination' = Some(u.data[10])
                        /\ UNCHANGED <<pc, offset>>
                   ELSE /\ mod_combination' = m
                        /\ offset' = offset + calcsize(format_specifier)
                        /\ pc' = "life_bar_graph"
                        /\ UNCHANGED err
    /\ UNCHANGED <<replay_data, game_mode, game_version, beatmap_hash, player_name,
                   replay_hash, life_bar_graph, timestamp, replay_length,
                   string_length, play_data>>

parse_life_bar_graph ==
    /\ pc = "life_bar_graph" /\ err = None
    /\ LET r == parse_string(replay_data, offset)
       IN  /\ offset' = r.offset
           /\ string_length' = r.string_length
           /\ err' = r.err
           /\ IF r.err # None THEN UNCHANGED <<pc, life_bar_graph>>
              ELSE life_bar_graph' = r.value /\ pc' = "timestamp_and_replay_length"
    /\ UNCHANGED <<replay_data, game_mode, game_version, beatmap_hash, player_name,
                   replay_hash, game_stats, mod_combination, timestamp,
                   replay_length, play_data>>

parse_timestamp_and_replay_length ==
    /\ pc = "timestamp_and_replay_length" /\ err = None
    /\ LET format_specifier == <<"q", "i">>
           u == unpack_from(format_specifier, replay_data, offset)
       IN  IF u.err # None
           THEN /\ err' = u.err
                /\ UNCHANGED <<pc, offset, timestamp, replay_length>>
           ELSE /\ timestamp' = Some(u.data[1])
                /\ replay_length' = Some(u.data[2])
                /\ offset' = offset + calcsize(format_specifier)
                /\ pc' = "play_data"
                /\ UNCHANGED err
    /\ UNCHANGED <<replay_data, game_mode, game_version, beatmap_hash, player_name,
                   replay_hash, game_stats, mod_combination, life_bar_graph,
                   string_length, play_data>>

\* Faulty variant: parse_play_data leaving the cursor where it is for a game
\* mode other than Standard.
parse_play_data_noskip ==
    /\ pc = "play_data" /\ err = None
    /\ LET offset_end == offset + replay_length[1]
           r == decode_play_data(PySlice(replay_data, offset, offset_end))
       IN  IF game_mode # Some(Standard)
           THEN /\ play_data' = None
                /\ pc' = "done"
                /\ UNCHANGED <<err, offset>>
           ELSE IF r.err # None
           THEN /\ err' = r.err
                /\ play_data' = r.play_data
                /\ UNCHANGED <<pc, offset>>
           ELSE /\ play_data' = r.play_data
                /\ offset' = offset_end
                /\ pc' = "done"
                /\ UNCHANGED err
    /\ UNCHANGED <<replay_data, game_mode, game_version, beatmap_hash, player_name,
                   replay_hash, game_stats, mod_combination, life_bar_graph,
                   timestamp, replay_length, string_length>>

parse_play_data ==
    /\ pc = "play_data" /\ err = None
    /\ LET offset_end == offset + replay_length[1]
           r == decode_play_data(PySlice(replay_data, offset, offset_end))
       IN  IF game_mode # Some(Standard)
           THEN /\ play_data' = None
                /\ offset' = offset_end
                /\ pc' = "done"
                /\ UNCHANGED err
           ELSE IF r.err # None
           THEN /\ err' = r.err
                /\ play_data' = r.play_data
                /\ UNCHANGED <<pc, offset>>
           ELSE /\ play_data' = r.play_data
                /\ offset' = offset_end
                /\ pc' = "done"
                /\ UNCHANGED err
    /\ UNCHANGED <<replay_data, game_mode, game_version, beatmap_hash, player_name,
                   replay_hash, game_stats, mod_combination, life_bar_graph,
                   timestamp, replay_length, string_length>>

\* One call of __decode at the cursor, as parse_string makes it.
decode_step ==
    /\ pc = "decode" /\ err = None
    /\ LET d == decode(replay_data, offset)
       IN  /\ offset' = d.offset
           /\ err' = d.err
           /\ string_length' = IF d.err = None THEN Some(d.result) ELSE None
           /\ pc' = IF d.err = None THEN "decoded" ELSE pc
    /\ UNCHANGED <<replay_data, game_mode, game_version, beatmap_hash, player_name,
                   replay_hash, game_stats, mod_combination, life_bar_graph,
                   timestamp, replay_length, play_data>>

(***************************************************************************)
(* Input buffers.  A buffer is laid out field by field as the decoder      *)
(* reads it; each family below varies one part of the layout.              *)
(***************************************************************************)
MaxTokens == 5      \* most tokens in a generated payload text
MaxSlack == 2       \* the payload length field is off by at most this much
MaxVal == 300       \* ULEB128 values 0..MaxVal are encoded, and the boundaries

\* v as n little-endian two's-complement bytes.
RECURSIVE le_bytes(_, _)
le_bytes(v, n) == IF n = 0 THEN <<>> ELSE <<v % 256>> \o le_bytes(v \div 256, n - 1)

\* v >= 0 in little-endian base 128, the high bit set on all but the last byte.
RECURSIVE uleb128(_)
uleb128(v) ==
    IF v < 128 THEN <<v>> ELSE <<128 + (v % 128)>> \o uleb128(v \div 128)

RECURSIVE Concat(_)
Concat(ss) == IF ss = <<>> THEN <<>> ELSE Head(ss) \o Concat(Tail(ss))

Hello == <<104, 101, 108, 108, 111>>
Absent == <<0>>
Present(bytes) == <<11>> \o uleb128(Len(bytes)) \o bytes

StringOptions ==
    { Absent,
      Present(Hello),
      <<11, 133, 0>> \o Hello,      \* the length 5 in two ULEB128 bytes
      Present(<<>>),
      Present(<<195, 169>>),        \* U+00E9
      <<11, 1, 255>>,               \* not UTF-8
      <<11, 127, 104>>,             \* declares 127 bytes
      <<5>> }                       \* no string tag

\* The bytes of the score block before the modifier mask.
ScoreBytes ==
    Concat(<<le_bytes(300, 2), le_bytes(100, 2), le_bytes(50, 2), le_bytes(3, 2),
             le_bytes(2, 2), le_bytes(1, 2), le_bytes(123456, 4), le_bytes(77, 2),
             <<1>>>>)

Buffer(mode, s1, s2, s3, mask, s4, length, payload) ==
    Concat(<<<<mode>>, le_bytes(20150414, 4), s1, s2, s3, ScoreBytes, mask, s4,
             le_bytes(1000000, 8), le_bytes(length, 4), payload>>)

NoMask == <<0, 0, 0, 0>>

\* The payload text: tokens joined by ',' and one trailing separator.
RECURSIVE PayloadText(_)
PayloadText(tokens) ==
    IF tokens = <<>> THEN <<44>> ELSE Head(tokens) \o <<44>> \o
        (IF Len(tokens) = 1 THEN <<>> ELSE PayloadText(Tail(tokens)))

Pack(text) == <<LzMagic>> \o text \o <<LzEnd>>

T0 == <<48, 124, 48, 124, 48, 124, 48>>                  \* 0|0|0|0
TN == <<45, 53, 48, 124, 48, 124, 48, 124, 48>>          \* -50|0|0|0
TP == <<49, 48, 124, 53, 124, 53, 124, 49>>              \* 10|5|5|1
TS == <<45, 53, 48>>                                     \* -50
TF == <<55, 124, 50, 46, 53, 124, 51, 124, 50>>          \* 7|2.5|3|2
TokenOptions == {T0, TN, TP, TS}
ExampleTokens == <<T0, T0, TN, TP>>

TokenSeqs == UNION { [1..n -> TokenOptions] : n \in 0..MaxTokens }

\* Family A: the four tagged strings.
StringBuffers ==
    { Buffer(1, s1, s2, s3, NoMask, s4, 0, <<>>) :
        s1 \in StringOptions, s2 \in StringOptions,
        s3 \in StringOptions, s4 \in StringOptions }

\* Family B: game mode, payload and the payload length field.
PayloadOptions ==
    { <<>>, <<1, 2, 3>>, Pack(PayloadText(ExampleTokens)),
      Pack(PayloadText(<<TF, TP, TF>>)), Pack(<<49, 200, 44>>),
      Pack(PayloadText(<<T0>>)) \o Pack(PayloadText(<<T0, TP, TF>>)) \o <<7>>,
      <<LzMagic, 48>> }

LengthBuffers ==
    { Buffer(mode, Absent, Absent, Absent, NoMask, Absent, Len(p) + d, p) :
        mode \in {0, 1, 2, 3, 9, 255}, p \in PayloadOptions,
        d \in (0 - MaxSlack)..MaxSlack }

\* Family C: the modifier mask, as the set of its set bits.
MaskBitChoices == {0, 2, 14, 28, 29, 31}

RECURSIVE SumPow2(_)
SumPow2(S) ==
    IF S = {} THEN 0 ELSE LET k == CHOOSE x \in S : TRUE IN 2 ^ k + SumPow2(S \ {k})

MaskBytes(S) == [j \in 1..4 |-> SumPow2({k - 8 * (j - 1) : k \in {x \in S : x \div 8 = j - 1}})]

MaskBuffers ==
    { Buffer(1, Absent, Absent, Absent, MaskBytes(S), Absent, 0, <<>>) :
        S \in SUBSET MaskBitChoices }

\* Family D: the tokens of a Standard payload.
TokenBuffers ==
    { Buffer(Standard, Absent, Absent, Absent, NoMask, Absent,
             Len(Pack(PayloadText(ts))), Pack(PayloadText(ts))) : ts \in TokenSeqs }

\* Family E: every prefix of one well-formed Standard replay.
WholeBuffer ==
    Buffer(Standard, Present(Hello), Present(Hello), Absent, MaskBytes({0, 2}),
           Present(Hello), Len(Pack(PayloadText(ExampleTokens))),
           Pack(PayloadText(ExampleTokens)))

PrefixBuffers == { SubSeq(WholeBuffer, 1, n) : n \in 0..Len(WholeBuffer) }

Inputs == StringBuffers \cup LengthBuffers \cup MaskBuffers \cup TokenBuffers
              \cup PrefixBuffers

(***************************************************************************)
(* Replay(replay_data): __init__, then the eight steps.                    *)
(***************************************************************************)
Init ==
    /\ replay_data \in Inputs
    /\ pc = "game_mode_and_version"
    /\ err = None
    /\ offset = 0
    /\ game_mode = None
    /\ game_version = None
    /\ beatmap_hash = None
    /\ player_name = None
    /\ replay_hash = None
    /\ game_stats = None
    /\ mod_combination = None
    /\ life_bar_graph = None
    /\ timestamp = None
    /\ replay_length = None
    /\ string_length = None
    /\ play_data = None

Next ==
    \/ parse_game_mode_and_version
    \/ parse_beatmap_hash
    \/ parse_player_name
    \/ parse_replay_hash
    \/ parse_score_stats
    \/ parse_life_bar_graph
    \/ parse_timestamp_and_replay_length
    \/ parse_play_data

Spec == Init /\ [][Next]_vars

(***************************************************************************)
(* __decode alone, at the cursor of a buffer that holds an encoded value   *)
(* (at the start or after a tag byte), whole or cut short.                 *)
(***************************************************************************)
Boundaries == {127, 128, 16383, 16384}
DecodeValues == (0..MaxVal) \cup Boundaries

DecodeBuffers ==
    UNION { { SubSeq(uleb128(v) \o <<104>>, 1, n) : n \in 0..(Len(uleb128(v)) + 1) } :
            v \in DecodeValues }

InitDecode ==
    /\ \E pad \in {<<>>, <<11>>}, b \in DecodeBuffers :
          replay_data = pad \o b /\ offset = Len(pad)
    /\ pc = "decode"
    /\ err = None
    /\ game_mode = None
    /\ game_version = None
    /\ beatmap_hash = None
    /\ player_name = None
    /\ replay_hash = None
    /\ game_stats = None
    /\ mod_combination = None
    /\ life_bar_graph = None
    /\ timestamp = None
    /\ replay_length = None
    /\ string_length = None
    /\ play_data = None

NextDecode == decode_step

SpecDecode == InitDecode /\ [][NextDecode]_vars

(***************************************************************************)
(* Properties.                                                             *)
(***************************************************************************)
StringSteps == {"beatmap_hash", "player_name", "replay_hash", "life_bar_graph"}

\* The steps that follow a parse_string step.
AfterString == {"player_name", "replay_hash", "score_stats", "timestamp_and_replay_length"}

\* Errors that report a read past the end of the buffer.
TruncatedInput == {"struct.error", "IndexError"}

Completed == pc = "done" /\ err = None
StandardDone == Completed /\ game_mode = Some(Standard)

\* The tokens of the payload of a replay whose play data are being or have
\* been decoded: each token the list of its '|'-separated fields.
PayloadStart == IF pc = "done" THEN offset - replay_length[1] ELSE offset
PayloadTokens ==
    LET slice == PySlice(replay_data, PayloadStart, PayloadStart + replay_length[1])
        datastring == PySlice(ascii_decode(lzma_decompress(slice)[1])[1], 0, -1)
        parts == split(datastring, 44)
    IN  [k \in 1..Len(parts) |-> split(parts[k], 124)]

Delta(tokens, i) == py_int(tokens[i][1])[1]

RECURSIVE SumDeltas(_, _)
SumDeltas(tokens, i) ==
    IF i = 0 THEN 0 ELSE SumDeltas(tokens, i - 1) + Delta(tokens, i)

\* Token i (counted from 1) emits an event unless it is at index >= 2 (counted
\* from 0) with a negative relative-time.
Emits(tokens, i) == ~(i >= 3 /\ Delta(tokens, i) < 0)
EmitIdx(tokens) == {i \in 1..Len(tokens) : Emits(tokens, i)}
Rank(tokens, i) == Cardinality({j \in EmitIdx(tokens) : j <= i})

\* C1: in a Standard replay every token adds its relative-time to the
\* accumulator; a token at index >= 2 with a negative relative-time emits no
\* event, every other token (index 0 and 1 included, whatever the sign) emits
\* exactly one event, whose timestamp is the sum of the relative-times of all
\* tokens up to and including it.  (The events of the first two emitting tokens
\* are the two that the trim removes.)
C1_Accumulate ==
    StandardDone =>
        LET tokens == PayloadTokens
            E == EmitIdx(tokens)
            n == Cardinality(E)
        IN  /\ Len(play_data[1]) = (IF n >= 2 THEN n - 2 ELSE 0)
            /\ \A i \in E :
                  Rank(tokens, i) >= 3 =>
                     play_data[1][Rank(tokens, i) - 2].timestamp = SumDeltas(tokens, i)

\* A Standard decode of tokens where a negative relative-time occurs both at
\* index 0 and at an index >= 2, with events left after the trim.
C1_Witness ==
    /\ StandardDone
    /\ play_data[1] # <<>>
    /\ Delta(PayloadTokens, 1) < 0
    /\ \E i \in 3..Len(PayloadTokens) : Delta(PayloadTokens, i) < 0

\* C2: the event stream of a Standard replay is the sequence of emitted events
\* without its first two, in token order (not sorted); it is empty when two or
\* fewer were emitted; the tokens 0|0|0|0, 0|0|0|0, -50|0|0|0, 10|5|5|1 give
\* the one event of the last token, at timestamp -40.
C2_Trim ==
    StandardDone =>
        LET tokens == PayloadTokens
            emitted == parse_events(tokens, 0, 0, <<>>).play_data
        IN  /\ play_data # None
            /\ Len(play_data[1]) = (IF Len(emitted) >= 2 THEN Len(emitted) - 2 ELSE 0)
            /\ \A j \in 1..Len(play_data[1]) : play_data[1][j] = emitted[j + 2]
            /\ tokens = [k \in 1..4 |-> split(ExampleTokens[k], 124)] =>
                  play_data = Some(<<ReplayEvent(-40, <<5, 0>>, <<5, 0>>, 1)>>)

\* A stream whose timestamps are not in ascending order.
C2_Witness ==
    /\ StandardDone
    /\ Len(play_data[1]) >= 2
    /\ play_data[1][1].timestamp > play_data[1][2].timestamp

\* C3: a Standard replay with a token of fewer than four fields, at any
\* position, does not decode.
C3_ShortTokenFails ==
    StandardDone => \A i \in 1..Len(PayloadTokens) : Len(PayloadTokens[i]) >= 4

\* C4: a payload length field larger than the number of bytes left after the
\* header makes the decode fail: the decode never completes on a shorter slice
\* with the cursor beyond the end of the buffer, whatever the game mode.
C4_TruncatedPayloadFails == Completed => offset <= Len(replay_data)

\* C5: a present string whose declared length exceeds the bytes left after the
\* length prefix makes parse_string fail: a parse_string that returned a string
\* has not moved the cursor past the end of the buffer.
C5_OverlongStringFails ==
    (pc \in AfterString /\ err = None /\ string_length # None)
        => offset <= Len(replay_data)

\* ULEB128 as the format defines it: the encoded length is the number of bytes
\* up to the first one with the high bit clear, the value the sum of the low
\* seven bits of byte i times 128^i.
UlebTerminated(data, off) == \E i \in off..(Len(data) - 1) : data[i + 1] < 128
UlebLen(data, off) ==
    (CHOOSE i \in off..(Len(data) - 1) :
        data[i + 1] < 128 /\ \A j \in off..(i - 1) : data[j + 1] >= 128) - off + 1

RECURSIVE UlebSum(_, _, _)
UlebSum(data, off, k) ==
    IF k = 0 THEN 0
    ELSE UlebSum(data, off, k - 1) + (data[off + k] % 128) * 128 ^ (k - 1)
UlebVal(data, off) == UlebSum(data, off, UlebLen(data, off))

\* The UTF-8 bytes of a string of code points.
RECURSIVE utf8_encode(_)
utf8_encode(str) ==
    IF str = <<>> THEN <<>>
    ELSE LET c == Head(str)
             b == IF c < 128 THEN <<c>>
                  ELSE IF c < 2048 THEN <<192 + (c \div 64), 128 + (c % 64)>>
                  ELSE IF c < 65536
                       THEN <<224 + (c \div 4096), 128 + ((c \div 64) % 64), 128 + (c % 64)>>
                  ELSE <<240 + (c \div 262144), 128 + ((c \div 4096) % 64),
                         128 + ((c \div 64) % 64), 128 + (c % 64)>>
         IN  b \o utf8_encode(Tail(str))

\* The parse_string step at pc stores v in its field.
Returned(v) ==
    /\ pc = "beatmap_hash" => beatmap_hash' = v
    /\ pc = "player_name" => player_name' = v
    /\ pc = "replay_hash" => replay_hash' = v
    /\ pc = "life_bar_graph" => life_bar_graph' = v

\* C6: parse_string is decided by the tag byte at the cursor: tag 0x00 returns
\* None and moves the cursor by 1; tag 0x0b, a k-byte ULEB128 length n and n
\* bytes of UTF-8 return these n bytes as the string and move the cursor by
\* 1 + k + n; any other tag raises the "Invalid replay" exception.
C6_StringStep ==
    (pc \in StringSteps /\ err = None /\ offset < Len(replay_data)) =>
        LET tag == replay_data[offset + 1]
            k == UlebLen(replay_data, offset + 1)
            n == UlebVal(replay_data, offset + 1)
            bytes == SubSeq(replay_data, offset + 1 + k + 1, offset + 1 + k + n)
        IN  /\ tag = 0 =>
                  err' = None /\ offset' = offset + 1 /\ Returned(None) /\ pc' # pc
            /\ (/\ tag = 11
                /\ UlebTerminated(replay_data, offset + 1)
                /\ offset + 1 + k + n <= Len(replay_data)
                /\ (\A i \in 1..n : bytes[i] < 128) \/ err' = None) =>
                  /\ err' = None
                  /\ offset' = offset + 1 + k + n
                  /\ pc' # pc
                  /\ \E str \in {beatmap_hash', player_name', replay_hash', life_bar_graph'} :
                        /\ Returned(str)
                        /\ str # None
                        /\ utf8_encode(str[1]) = bytes
            /\ tag \notin {0, 11} =>
                  err' = Some("Exception") /\ offset' = offset /\ pc' = pc

\* C6, for every step of every decode.
C6_StringStepHolds == [][C6_StringStep]_vars

\* One decode that read an absent string, then "hello" behind a two-byte
\* length, then "hello" behind a one-byte length.
C6_Witness ==
    /\ pc = "timestamp_and_replay_length" /\ err = None
    /\ beatmap_hash = None
    /\ replay_hash = Some(Hello)
    /\ life_bar_graph = Some(Hello)
    /\ offset = 5 + 1 + (1 + 2 + 5) + (1 + 1 + 5) + calcsize(<<"h", "h", "h", "h", "h", "h", "i", "h", "?", "i">>) + (1 + 1 + 5)
    /\ player_name = Some(Hello)

\* C7: decoding the encoding of v returns v and moves the cursor by the number
\* of encoded bytes, the boundaries included; a buffer that ends before a byte
\* with the high bit clear makes the read fail without a value.
C7_DecodeStep ==
    pc = "decode" =>
        /\ \A v \in DecodeValues :
              (/\ offset + Len(uleb128(v)) <= Len(replay_data)
               /\ SubSeq(replay_data, offset + 1, offset + Len(uleb128(v))) = uleb128(v)) =>
                 /\ err' = None
                 /\ string_length' = Some(v)
                 /\ offset' = offset + Len(uleb128(v))
        /\ ~UlebTerminated(replay_data, offset) =>
              err' = Some("IndexError") /\ string_length' = None /\ pc' = pc

\* C7, for every call of __decode.
C7_RoundTrip == [][C7_DecodeStep]_vars

C7_Witness ==
    /\ pc = "decoded"
    /\ string_length = Some(16384)
    /\ offset = 4
    /\ Len(replay_data) = 5

\* The set bits of the four mask bytes at offset off.
MaskBitsAt(off) ==
    {k \in 0..31 : (replay_data[off + 1 + k \div 8] \div 2 ^ (k % 8)) % 2 = 1}

RECURSIVE SetSum(_)
SetSum(S) == IF S = {} THEN 0 ELSE LET x == CHOOSE y \in S : TRUE IN x + SetSum(S \ {x})

\* C8: the modifier set of a mask is the set of the flags of its set bits: its
\* values add up (being distinct bits: OR) to the mask and it has one member per
\* set bit; the mask 0 gives the set of NoMod alone; a mask with a set bit that
\* has no flag, bit 31 included, fails the decode.
C8_ModSet ==
    /\ (pc = "life_bar_graph" /\ err = None) =>
          LET B == MaskBitsAt(offset - 4)
          IN  /\ B \subseteq ModBits
              /\ B = {} => mod_combination = Some({NoMod})
              /\ B # {} =>
                    /\ mod_combination = Some({2 ^ k : k \in B})
                    /\ Cardinality(mod_combination[1]) = Cardinality(B)
                    /\ SetSum(mod_combination[1]) = le_int(replay_data, offset - 4, 4)
    /\ (pc = "score_stats" /\ err # None /\ Len(replay_data) - offset >= 23) =>
          /\ err = Some("ValueError")
          /\ ~(MaskBitsAt(offset + 19) \subseteq ModBits)

C8_Witness ==
    /\ pc = "life_bar_graph" /\ err = None
    /\ MaskBitsAt(offset - 4) = {0, 2, 14, 28}
    /\ mod_combination = Some({1, 4, 16384, 268435456})

\* C9: for a game mode other than Standard, parse_play_data moves the cursor by
\* exactly the payload length of the header, leaves play_data None, raises
\* nothing whatever the payload holds and changes no header field.
C9_OtherModeStep ==
    (pc = "play_data" /\ err = None /\ game_mode # Some(Standard)) =>
        /\ offset' = offset + replay_length[1]
        /\ play_data' = None
        /\ err' = None
        /\ pc' = "done"
        /\ UNCHANGED <<game_mode, game_version, beatmap_hash, player_name, replay_hash,
                       game_stats, mod_combination, life_bar_graph, timestamp,
                       replay_length>>

\* C9, for every step of every decode.
C9_OtherMode == [][C9_OtherModeStep]_vars

\* A completed decode of another mode over a payload that is no LZMA stream.
C9_Witness ==
    /\ Completed
    /\ game_mode = Some(3)
    /\ replay_length = Some(3)
    /\ SubSeq(replay_data, offset - 2, offset) = <<1, 2, 3>>
    /\ play_data = None

\* C10: the cursor never moves back from one parse step to the next and, after
\* every step that succeeds, lies between 0 and the length of the buffer.
C10_CursorStep ==
    /\ offset' >= offset
    /\ err' = None => (0 <= offset' /\ offset' <= Len(replay_data))

\* C10, for every step of every decode (the cursor starts at 0 by Init).
C10_CursorMonotone == [][C10_CursorStep]_vars

====
